---- MODULE Spec2Model ----
(***************************************************************************)
(* A model of the embed-doc-image procedural macros (src/src/lib.rs).      *)
(*                                                                         *)
(* Text is modelled at the level of characters: a string is a sequence of  *)
(* one-character strings, so that formatting, case folding, extension      *)
(* splitting and base64 encoding are computed, not assumed.  An optional   *)
(* value (Rust's Option / Result) is a sequence of length at most one.     *)
(***************************************************************************)
EXTENDS Integers, Sequences, FiniteSets, TLC

(***************************************************************************)
(* Bounds of the model.                                                    *)
(***************************************************************************)
\* longest file content drawn for a single macro call
MaxFileLen == 3
\* annotation occurrences expanded in one compilation unit
MaxOcc == 2
\* image annotations written on one declaration
MaxAnn == 2
\* times the environment rewrites an image file during a build
MaxWrites == 1

\* the element of a one-element set: The({ F(v) : v \in { e } }) is F(e)
\* with e evaluated once, as a `let v = e;` of the code is
The(S) == CHOOSE v \in S : TRUE

(***************************************************************************)
(* Characters and strings.                                                 *)
(***************************************************************************)
UpperChars ==
  <<"A","B","C","D","E","F","G","H","I","J","K","L","M",
    "N","O","P","Q","R","S","T","U","V","W","X","Y","Z">>

LowerChars ==
  <<"a","b","c","d","e","f","g","h","i","j","k","l","m",
    "n","o","p","q","r","s","t","u","v","w","x","y","z">>

\* char::to_ascii_lowercase
char_to_ascii_lowercase(c) ==
  IF \E k \in 1..26 : UpperChars[k] = c
  THEN LowerChars[CHOOSE k \in 1..26 : UpperChars[k] = c]
  ELSE c

\* str::to_ascii_lowercase, as called on the extension
to_ascii_lowercase(s) == [i \in 1..Len(s) |-> char_to_ascii_lowercase(s[i])]

(***************************************************************************)
(* base64::encode: the standard alphabet, padded with '='.                 *)
(***************************************************************************)
Base64Alphabet ==
  UpperChars \o LowerChars \o
  <<"0","1","2","3","4","5","6","7","8","9","+","/">>

Sextet(v) == Base64Alphabet[v + 1]

RECURSIVE base64_encode(_)
base64_encode(bytes) ==
  IF Len(bytes) = 0 THEN <<>>
  ELSE IF Len(bytes) = 1 THEN
    << Sextet(bytes[1] \div 4), Sextet((bytes[1] % 4) * 16), "=", "=" >>
  ELSE IF Len(bytes) = 2 THEN
    << Sextet(bytes[1] \div 4),
       Sextet((bytes[1] % 4) * 16 + bytes[2] \div 16),
       Sextet((bytes[2] % 16) * 4), "=" >>
  ELSE
    << Sextet(bytes[1] \div 4),
       Sextet((bytes[1] % 4) * 16 + bytes[2] \div 16),
       Sextet((bytes[2] % 16) * 4 + bytes[3] \div 64),
       Sextet(bytes[3] % 64) >>
    \o base64_encode(SubSeq(bytes, 4, Len(bytes)))

(***************************************************************************)
(* Paths (std::path).                                                      *)
(***************************************************************************)
\* the segments of a path between '/' separators, empty ones included
RECURSIVE Segments(_)
Segments(p) ==
  IF \A i \in 1..Len(p) : p[i] # "/" THEN << p >>
  ELSE LET k == CHOOSE i \in 1..Len(p) :
                  p[i] = "/" /\ \A j \in 1..(i - 1) : p[j] # "/"
       IN << SubSeq(p, 1, k - 1) >> \o Segments(SubSeq(p, k + 1, Len(p)))

\* Path::file_name: the last normal component; none for "", "/" and "..".
\* Empty and "." segments are not components.
path_file_name(p) ==
  LET comps == SelectSeq(Segments(p), LAMBDA s : s # <<>> /\ s # <<".">>)
  IN IF comps = <<>> \/ comps[Len(comps)] = <<".", ".">> THEN <<>>
     ELSE << comps[Len(comps)] >>

\* Path::extension: the part of the file name after its last '.', none when
\* the name has no '.' or only a leading one (".png" is a hidden file).
path_extension(p) ==
  LET fn == path_file_name(p)
  IN IF fn = <<>> THEN <<>>
     ELSE LET f == fn[1]
              dots == { i \in 1..Len(f) : f[i] = "." }
          IN IF dots = {} THEN <<>>
             ELSE LET k == CHOOSE i \in dots : \A j \in dots : j <= i
                  IN IF k = 1 THEN <<>>
                     ELSE << SubSeq(f, k + 1, Len(f)) >>

\* Path::join: an absolute argument replaces the base.
path_join(base, p) ==
  IF Len(p) > 0 /\ p[1] = "/" THEN p
  ELSE IF Len(base) > 0 /\ base[Len(base)] = "/" THEN base \o p
  ELSE base \o <<"/">> \o p

(***************************************************************************)
(* State.                                                                  *)
(*   env      CARGO_MANIFEST_DIR: <<>> when unset, else << root >>         *)
(*   fs       the readable files: full path |-> bytes                      *)
(*   decl     the declaration being expanded by the compiler, if any:      *)
(*            << [orig |-> item as written, cur |-> item so far] >>        *)
(*   log      one record per macro invocation made so far                  *)
(*   failed   the compilation unit has reported an error                   *)
(*   fsReads  calls of std::fs::read made so far                           *)
(*   sites    annotation sites handed out so far (a site is a span)        *)
(*   writes   times the environment rewrote a file                         *)
(*   left     annotation sites of the unit the compiler has yet to reach   *)
(***************************************************************************)
VARIABLES env, fs, decl, log, failed, fsReads, sites, writes, left

vars == << env, fs, decl, log, failed, fsReads, sites, writes, left >>

(***************************************************************************)
(* Tokens (proc_macro::TokenStream as syn sees it).                        *)
(***************************************************************************)
LitStr(v) == [t |-> "LitStr", v |-> v]

Comma == [t |-> "Comma", v |-> <<>>]

LitInt == [t |-> "LitInt", v |-> <<"7">>]

LitByteStr(v) == [t |-> "LitByteStr", v |-> v]

Ident == [t |-> "Ident", v |-> <<"x">>]

(***************************************************************************)
(* impl Parse for ImageDescription: LitStr, ',', LitStr; each `?` returns  *)
(* the error at once.  rest is what the parser left unread.                *)
(***************************************************************************)
ParseErr == [ok |-> FALSE, desc |-> <<>>, rest |-> <<>>]

\* a slip: the label is taken from the second literal
ImageDescription_parse_swapped(input) ==
  IF Len(input) < 1 \/ input[1].t # "LitStr" THEN ParseErr
  ELSE IF Len(input) < 2 \/ input[2].t # "Comma" THEN ParseErr
  ELSE IF Len(input) < 3 \/ input[3].t # "LitStr" THEN ParseErr
  ELSE [ok |-> TRUE,
        desc |-> << [label |-> input[3].v, path |-> input[3].v] >>,
        rest |-> SubSeq(input, 4, Len(input))]

ImageDescription_parse(input) ==
  IF Len(input) < 1 \/ input[1].t # "LitStr" THEN ParseErr
  ELSE IF Len(input) < 2 \/ input[2].t # "Comma" THEN ParseErr
  ELSE IF Len(input) < 3 \/ input[3].t # "LitStr" THEN ParseErr
  ELSE [ok |-> TRUE,
        desc |-> << [label |-> input[1].v, path |-> input[3].v] >>,
        rest |-> SubSeq(input, 4, Len(input))]

\* a slip: tokens left after the descriptor are ignored
parse_macro_input_lenient(tokens) == ImageDescription_parse(tokens).desc

\* syn::parse_macro_input!(tokens as ImageDescription): the parser must
\* consume the whole stream, a token left over is an error.
parse_macro_input(tokens) ==
  LET r == ImageDescription_parse(tokens)
  IN IF r.ok /\ r.rest = <<>> THEN r.desc ELSE <<>>

(***************************************************************************)
(* The resource encoder.                                                   *)
(***************************************************************************)
\* a slip: a file that cannot be read encodes as the empty payload
encode_base64_image_from_path_default(path) ==
  IF path \in DOMAIN fs THEN << base64_encode(fs[path]) >> ELSE << <<>> >>

\* a slip: the payload of an earlier invocation on the same path is reused
encode_base64_image_from_path_cached(path) ==
  LET hits == { i \in 1..Len(log) :
                  /\ log[i].out.desc # <<>>
                  /\ log[i].env # <<>>
                  /\ path_join(log[i].env[1], log[i].out.desc[1].path) = path
                  /\ path \in DOMAIN log[i].fs }
  IN IF hits # {}
     THEN << base64_encode(log[CHOOSE i \in hits : TRUE].fs[path]) >>
     ELSE IF path \in DOMAIN fs THEN << base64_encode(fs[path]) >> ELSE <<>>

\* encode_base64_image_from_path: << payload >>, or <<>> for the panic
\* "Failed to load image at ..."
encode_base64_image_from_path(path) ==
  IF path \in DOMAIN fs THEN << base64_encode(fs[path]) >> ELSE <<>>

\* the match of determine_mime_type on the lower-cased extension: << mime >>,
\* or <<>> for the panic of the catch-all arm
mime_table(ext) ==
  CASE ext \in { <<"j","p","g">>, <<"j","p","e","g">> } ->
         << <<"i","m","a","g","e","/","j","p","e","g">> >>
    [] ext = <<"p","n","g">> -> << <<"i","m","a","g","e","/","p","n","g">> >>
    [] ext = <<"b","m","p">> -> << <<"i","m","a","g","e","/","b","m","p">> >>
    [] ext = <<"s","v","g">> ->
         << <<"i","m","a","g","e","/","s","v","g","+","x","m","l">> >>
    [] ext = <<"g","i","f">> -> << <<"i","m","a","g","e","/","g","i","f">> >>
    [] ext \in { <<"t","i","f">>, <<"t","i","f","f">> } ->
         << <<"i","m","a","g","e","/","t","i","f","f">> >>
    [] ext = <<"w","e","b","p">> ->
         << <<"i","m","a","g","e","/","w","e","b","p">> >>
    [] ext = <<"i","c","o">> ->
         << <<"i","m","a","g","e","/","v","n","d",".","m","i","c","r","o",
              "s","o","f","t",".","i","c","o","n">> >>
    [] OTHER -> <<>>

\* a slip: the extension is matched as written, not lower-cased
determine_mime_type_nofold(extension) == mime_table(extension)

\* a slip: an unknown extension falls back to a generic content type
determine_mime_type_fallback(extension) ==
  LET m == mime_table(to_ascii_lowercase(extension))
  IN IF m = <<>>
     THEN << <<"a","p","p","l","i","c","a","t","i","o","n","/",
               "o","c","t","e","t","-","s","t","r","e","a","m">> >>
     ELSE m

\* determine_mime_type: << mime >>, or <<>> for the panic
\* "Unrecognized image extension, unable to infer correct MIME type"
determine_mime_type(extension) == mime_table(to_ascii_lowercase(extension))

\* format!(" [{label}]: data:{mime};base64,{encoded}")
format_doc_string(label, mime, encoded) ==
  <<" ", "[">> \o label \o <<"]", ":", " ", "d", "a", "t", "a", ":">>
  \o mime \o <<";", "b", "a", "s", "e", "6", "4", ",">> \o encoded

DocErr(err, msg, read) ==
  [ok |-> FALSE, err |-> err, msg |-> msg, doc |-> <<>>, read |-> read]

\* a slip: the extension is examined before the file is read
produce_doc_string_for_image_extfirst(image_desc) ==
  IF env = <<>> THEN DocErr("ConfigError", "no CARGO_MANIFEST_DIR", FALSE)
  ELSE
    LET ext == path_extension(image_desc.path)
    IN IF ext = <<>>
         THEN DocErr("UnsupportedExtension", "No extension for file", FALSE)
       ELSE
         LET mime == determine_mime_type(ext[1])
         IN IF mime = <<>>
            THEN DocErr("UnsupportedExtension",
                        "Unrecognized image extension", FALSE)
            ELSE
              LET encoded == encode_base64_image_from_path(
                               path_join(env[1], image_desc.path))
              IN IF encoded = <<>>
                 THEN DocErr("FileError", "Failed to load image", TRUE)
                 ELSE [ok |-> TRUE, err |-> "", msg |-> "",
                       doc |-> << format_doc_string(image_desc.label, mime[1],
                                                    encoded[1]) >>,
                       read |-> TRUE]

\* a slip: the brackets around the label are left out
produce_doc_string_for_image_nobracket(image_desc) ==
  IF env = <<>> THEN DocErr("ConfigError", "no CARGO_MANIFEST_DIR", FALSE)
  ELSE
    LET encoded == encode_base64_image_from_path(path_join(env[1], image_desc.path))
        ext == path_extension(image_desc.path)
    IN IF encoded = <<>> THEN DocErr("FileError", "Failed to load image", TRUE)
       ELSE IF ext = <<>>
         THEN DocErr("UnsupportedExtension", "No extension for file", TRUE)
       ELSE
         LET mime == determine_mime_type(ext[1])
         IN IF mime = <<>>
            THEN DocErr("UnsupportedExtension",
                        "Unrecognized image extension", TRUE)
            ELSE [ok |-> TRUE, err |-> "", msg |-> "",
                  doc |-> << <<" ">> \o image_desc.label
                             \o <<":", " ", "d", "a", "t", "a", ":">>
                             \o mime[1]
                             \o <<";", "b", "a", "s", "e", "6", "4", ",">>
                             \o encoded[1] >>,
                  read |-> TRUE]

\* produce_doc_string_for_image: the environment value, then the file, then
\* the extension, then the content type; the first failure panics.
\* read records whether std::fs::read was called.
produce_doc_string_for_image(image_desc) ==
  IF env = <<>> THEN DocErr("ConfigError", "no CARGO_MANIFEST_DIR", FALSE)
  ELSE
    LET encoded == encode_base64_image_from_path(path_join(env[1], image_desc.path))
        ext == path_extension(image_desc.path)
    IN IF encoded = <<>> THEN DocErr("FileError", "Failed to load image", TRUE)
       ELSE IF ext = <<>>
         THEN DocErr("UnsupportedExtension", "No extension for file", TRUE)
       ELSE
         LET mime == determine_mime_type(ext[1])
         IN IF mime = <<>>
            THEN DocErr("UnsupportedExtension",
                        "Unrecognized image extension", TRUE)
            ELSE [ok |-> TRUE, err |-> "", msg |-> "",
                  doc |-> << format_doc_string(image_desc.label, mime[1],
                                               encoded[1]) >>,
                  read |-> TRUE]

(***************************************************************************)
(* Declarations.  An item token stream is                                  *)
(*   [kind, outer, inner, rest]                                            *)
(* outer: the attributes written before the item; inner: the #![..]        *)
(* attributes written inside its body; rest: every other token (visibility,*)
(* signature, body).  An attribute is [style, name, tokens, span].         *)
(***************************************************************************)
SupportedKinds ==
  { "Const", "Enum", "ExternCrate", "Fn", "ForeignMod", "Impl", "Macro",
    "Macro2", "Mod", "Static", "Struct", "Trait", "TraitAlias", "Type",
    "Union", "Use" }

\* what syn::Item can hold besides: Item::Verbatim (tokens syn accepts as an
\* item without a syntax tree of its own, such as a body-less fn), and input
\* that is no item at all (an expression statement)
ItemKinds == SupportedKinds \cup { "Verbatim", "ExprStmt" }

OuterAttr(name, tokens, span) ==
  [style |-> "Outer", name |-> name, tokens |-> tokens, span |-> span]

InnerAttr(name, tokens) ==
  [style |-> "Inner", name |-> name, tokens |-> tokens, span |-> 0]

\* #[doc = "text"]
DocAttr(text) == OuterAttr("doc", << LitStr(text) >>, 0)

\* #[embed_doc_image(args)] written at source location span
Annotation(args, span) == OuterAttr("embed_doc_image", args, span)

\* syn::parse_macro_input!(item) as syn::Item: << item >> with the outer
\* attributes followed by the inner ones in attrs, or <<>> on a parse error
syn_parse_Item(item) ==
  IF item.kind = "ExprStmt" THEN <<>>
  ELSE << [kind |-> item.kind, attrs |-> item.outer \o item.inner,
           rest |-> item.rest] >>

\* ToTokens for an item: the outer attributes before it, the inner ones
\* inside its body
into_token_stream(input) ==
  [kind |-> input.kind,
   outer |-> SelectSeq(input.attrs, LAMBDA a : a.style = "Outer"),
   inner |-> SelectSeq(input.attrs, LAMBDA a : a.style = "Inner"),
   rest |-> input.rest]

(***************************************************************************)
(* The two macros.  A result is                                            *)
(*   tag   "Tokens" | "CompileError" (a compile_error! expansion) | "Panic"*)
(*   err   the class of the failure, msg its message                       *)
(*   at    what the diagnostic points at: the macro's arguments ("args"),  *)
(*         the annotated item ("item") or the invocation ("call")          *)
(*   lit   << string literal >> returned by embed_image                    *)
(*   item  << item token stream >> returned by embed_doc_image             *)
(*   desc, doc, read   what the invocation got to: the descriptor parsed,  *)
(*         the doc string produced, whether the file system was read       *)
(***************************************************************************)
Failure(tag, err, msg, at, desc, read) ==
  [tag |-> tag, err |-> err, msg |-> msg, at |-> at, lit |-> <<>>,
   item |-> <<>>, desc |-> desc, doc |-> <<>>, read |-> read]

\* the prefix format!("\n \n {}", doc_string) puts before the doc string
InlinePrefix == << "\n", " ", "\n", " " >>

\* embed_image once the doc string is there (or the panic that stands for it)
embed_image_tokens(image_desc, r) ==
  IF ~r.ok THEN Failure("Panic", r.err, r.msg, "call", image_desc, r.read)
  ELSE [tag |-> "Tokens", err |-> "", msg |-> "", at |-> "",
        lit |-> << InlinePrefix \o r.doc[1] >>, item |-> <<>>,
        desc |-> image_desc, doc |-> r.doc, read |-> r.read]

\* a slip: the blank-line prefix is left out
embed_image_noprefix(item) ==
  LET image_desc == parse_macro_input(item)
  IN IF image_desc = <<>>
     THEN Failure("CompileError", "ParseError", "syn parse error", "args",
                  <<>>, FALSE)
     ELSE The({ [embed_image_tokens(image_desc, r) EXCEPT !.lit = r.doc] :
                  r \in { produce_doc_string_for_image(image_desc[1]) } })

\* #[proc_macro] embed_image
embed_image(item) ==
  LET image_desc == parse_macro_input(item)
  IN IF image_desc = <<>>
     THEN Failure("CompileError", "ParseError", "syn parse error", "args",
                  <<>>, FALSE)
     ELSE The({ embed_image_tokens(image_desc, r) :
                  r \in { produce_doc_string_for_image(image_desc[1]) } })

\* a slip: the doc string is pushed without the empty doc line before it
rewrite_item_noblank(input, doc_string) ==
  IF input.kind \in SupportedKinds
  THEN << into_token_stream(
            [input EXCEPT !.attrs = Append(@, DocAttr(doc_string))]) >>
  ELSE <<>>

\* a slip: the two doc attributes are put before the ones already there
rewrite_item_prepend(input, doc_string) ==
  IF input.kind \in SupportedKinds
  THEN << into_token_stream(
            [input EXCEPT !.attrs =
               << DocAttr(<<>>), DocAttr(doc_string) >> \o @]) >>
  ELSE <<>>

\* a slip: the catch-all arm passes the item through instead of failing
rewrite_item_passthrough(input, doc_string) ==
  IF input.kind \in SupportedKinds
  THEN << into_token_stream(
            [input EXCEPT !.attrs =
               Append(Append(@, DocAttr(<<>>)), DocAttr(doc_string))]) >>
  ELSE << into_token_stream(input) >>

\* the match of embed_doc_image on the parsed item: the supported variants
\* get the two doc attributes pushed, anything else is an error spanning it
rewrite_item(input, doc_string) ==
  IF input.kind \in SupportedKinds
  THEN << into_token_stream(
            [input EXCEPT !.attrs =
               Append(Append(@, DocAttr(<<>>)), DocAttr(doc_string))]) >>
  ELSE <<>>

\* embed_doc_image once the doc string is there (or the panic that stands
\* for it): parse the item, rewrite it
embed_doc_image_tokens(image_desc, r, item) ==
  IF ~r.ok THEN Failure("Panic", r.err, r.msg, "call", image_desc, r.read)
  ELSE
    LET input == syn_parse_Item(item)
    IN IF input = <<>>
       THEN [Failure("CompileError", "UnsupportedDeclaration",
                     "syn parse error", "item", image_desc, r.read)
               EXCEPT !.doc = r.doc]
       ELSE
         LET out == rewrite_item(input[1], r.doc[1])
         IN IF out = <<>>
            THEN [Failure("CompileError", "UnsupportedDeclaration",
                          "Unsupported item", "item", image_desc, r.read)
                    EXCEPT !.doc = r.doc]
            ELSE [tag |-> "Tokens", err |-> "", msg |-> "", at |-> "",
                  lit |-> <<>>, item |-> out,
                  desc |-> image_desc, doc |-> r.doc, read |-> r.read]

\* #[proc_macro_attribute] embed_doc_image
embed_doc_image(attr, item) ==
  LET image_desc == parse_macro_input(attr)
  IN IF image_desc = <<>>
     THEN Failure("CompileError", "ParseError", "syn parse error", "args",
                  <<>>, FALSE)
     ELSE The({ embed_doc_image_tokens(image_desc, r, item) :
                  r \in { produce_doc_string_for_image(image_desc[1]) } })

(***************************************************************************)
(* Inputs: paths, file contents, macro arguments, declarations.            *)
(***************************************************************************)
Root == << "/", "r" >>

\* relative paths with an extension of the table, lower and mixed case
RecognizedPaths ==
  { << "a", ".", "p", "n", "g" >>, << "a", ".", "P", "N", "G" >>,
    << "a", ".", "j", "p", "g" >>, << "a", ".", "J", "p", "e", "G" >>,
    << "a", ".", "j", "p", "e", "g" >>, << "a", ".", "b", "m", "p" >>,
    << "a", ".", "s", "v", "g" >>, << "a", ".", "g", "i", "f" >>,
    << "b", ".", "G", "I", "F" >>, << "a", ".", "t", "i", "f" >>,
    << "a", ".", "t", "i", "f", "f" >>, << "a", ".", "w", "e", "b", "p" >>,
    << "a", ".", "i", "c", "o" >>,
    << "a", ".", "t", "a", "r", ".", "g", "i", "f" >>,
    << "i", "/", "f", ".", "p", "n", "g" >>,
    << "/", "o", ".", "p", "n", "g" >> }

\* existing files whose extension is unknown, empty or absent
OtherPaths ==
  { << "c", ".", "t", "x", "t" >>, << "a", ".", "p", "n", "g", "x" >>,
    << "a" >>, << ".", "p", "n", "g" >>, << "a", "." >>,
    << "d", ".", "p", "n", "g", "/", "a" >> }

\* paths at which there is no readable file
MissingPaths ==
  { << "m", ".", "p", "n", "g" >>, << "m", ".", "t", "x", "t" >>, << "m" >> }

Paths == RecognizedPaths \cup OtherPaths \cup MissingPaths

Files == { path_join(Root, p) : p \in RecognizedPaths \cup OtherPaths }

ByteVals == { 0, 77, 255 }

RECURSIVE SeqsUpTo(_, _)
SeqsUpTo(S, n) ==
  IF n = 0 THEN { <<>> }
  ELSE LET shorter == SeqsUpTo(S, n - 1)
       IN shorter \cup { Append(q, x) : q \in shorter, x \in S }

Contents == SeqsUpTo(ByteVals, MaxFileLen)

Args(label, path) == << LitStr(label), Comma, LitStr(path) >>

L_f == << "f" >>

L_g == << "g", "2" >>

P_png == << "a", ".", "p", "n", "g" >>

P_GIF == << "b", ".", "G", "I", "F" >>

\* argument streams that are not `"label", "path"`
MalformedArgs ==
  { <<>>,
    << LitStr(L_f) >>,
    << LitStr(L_f), Comma >>,
    << LitStr(L_f), LitStr(P_png) >>,
    << Comma, LitStr(P_png) >>,
    << LitInt, Comma, LitStr(P_png) >>,
    << LitStr(L_f), Comma, Ident >>,
    << LitStr(L_f), Comma, LitByteStr(P_png) >>,
    << LitStr(L_f), Comma, LitStr(P_png), Comma >>,
    << LitStr(L_f), Comma, LitStr(P_png), Comma, LitStr(P_png) >>,
    << LitStr(L_f), Comma, LitStr(<< "m", ".", "p", "n", "g" >>), Ident >> }

\* the arguments a single invocation is tried on
WideArgs ==
  { Args(L_f, p) : p \in Paths }
  \cup { Args(l, p) : l \in { <<>>, L_g }, p \in { P_png, P_GIF } }
  \cup MalformedArgs

\* the arguments the annotations of a whole unit are drawn from
UnitArgs ==
  { Args(L_f, P_png), Args(L_g, P_GIF),
    Args(L_f, << "m", ".", "p", "n", "g" >>),
    Args(L_g, << "c", ".", "t", "x", "t" >>),
    << LitStr(L_f), LitStr(P_png) >> }

\* a declaration as written, annotations aside: the attributes before and
\* after them, the inner attributes, the other tokens
Decl(kind, pre, post, inner) ==
  [kind |-> kind, pre |-> pre, post |-> post, inner |-> inner,
   rest |-> << "pub", kind, "body" >>]

D_doc == DocAttr(<< "D" >>)

\* one declaration of every kind, and some with more around the annotations
Declarations ==
  { Decl(k, << D_doc >>, <<>>, <<>>) : k \in ItemKinds }
  \cup { Decl("Fn", <<>>, <<>>, <<>>),
         Decl("Macro", << D_doc >>, << OuterAttr("macro_export", <<>>, 0) >>,
              <<>>),
         Decl("Struct", << D_doc, OuterAttr("derive", << Ident >>, 0) >>,
              << DocAttr(<< "E" >>) >>, <<>>),
         Decl("Mod", << D_doc >>, <<>>,
              << InnerAttr("doc", << LitStr(<< "I" >>) >>) >>),
         Decl("Fn", <<>>, <<>>, << InnerAttr("allow", << Ident >>) >>) }

\* the declarations the wide arguments are tried on
PlainDeclarations ==
  { Decl("Fn", << D_doc >>, <<>>, <<>>), Decl("ExprStmt", <<>>, <<>>, <<>>) }

\* the declarations of a whole unit
UnitDeclarations ==
  { Decl("Fn", << D_doc >>, <<>>, <<>>),
    Decl("Macro", << D_doc >>, << OuterAttr("macro_export", <<>>, 0) >>,
         <<>>),
    Decl("Mod", << D_doc >>, <<>>,
         << InnerAttr("doc", << LitStr(<< "I" >>) >>) >>),
    Decl("Verbatim", << D_doc >>, <<>>, <<>>) }

\* the item the compiler sees: the annotations between pre and post, each
\* with its own span
Written(d, anns, first) ==
  [kind |-> d.kind,
   outer |-> d.pre
             \o [i \in 1..Len(anns) |-> Annotation(anns[i], first + i)]
             \o d.post,
   inner |-> d.inner, rest |-> d.rest]

IsAnnotation(a) == a.name = "embed_doc_image"

HasAnnotation(item) ==
  \E i \in 1..Len(item.outer) : IsAnnotation(item.outer[i])

FirstAnnotation(item) ==
  CHOOSE i \in 1..Len(item.outer) :
    /\ IsAnnotation(item.outer[i])
    /\ \A j \in 1..(i - 1) : ~IsAnnotation(item.outer[j])

RemoveAt(q, i) == SubSeq(q, 1, i - 1) \o SubSeq(q, i + 1, Len(q))

(***************************************************************************)
(* Actions.                                                                *)
(***************************************************************************)
Entry(site, mode, tokens, item, out) ==
  [site |-> site, mode |-> mode, tokens |-> tokens, item |-> item,
   env |-> env, fs |-> fs, out |-> out]

\* no declaration is in the middle of its expansion
Idle == \A i \in 1..Len(decl) : ~HasAnnotation(decl[i].cur)

\* the compiler reaches a declaration that carries image annotations
BeginItem(d, anns) ==
  /\ Idle
  /\ Len(anns) <= left
  /\ left' = left - Len(anns)
  /\ decl' = << [orig |-> Written(d, anns, sites),
                 cur |-> Written(d, anns, sites)] >>
  /\ sites' = sites + Len(anns)
  /\ UNCHANGED << env, fs, log, failed, fsReads, writes >>

\* the compiler expands the first annotation still on the declaration: the
\* macro gets the annotation's arguments and the item without it.  Its
\* output replaces the item; an error drops the item and fails the unit.
ExpandAttribute ==
  /\ decl # <<>>
  /\ HasAnnotation(decl[1].cur)
  /\ \E k \in { FirstAnnotation(decl[1].cur) } :
       \E out \in { embed_doc_image(
                      decl[1].cur.outer[k].tokens,
                      [decl[1].cur EXCEPT !.outer = RemoveAt(@, k)]) } :
         /\ log' = Append(log,
                      Entry(decl[1].cur.outer[k].span, "attribute",
                            decl[1].cur.outer[k].tokens,
                            << [decl[1].cur EXCEPT !.outer = RemoveAt(@, k)] >>,
                            out))
         /\ fsReads' = fsReads + (IF out.read THEN 1 ELSE 0)
         /\ failed' = (failed \/ out.tag # "Tokens")
         /\ decl' = IF out.tag = "Tokens"
                    THEN << [decl[1] EXCEPT !.cur = out.item[1]] >>
                    ELSE <<>>
  /\ UNCHANGED << env, fs, sites, writes, left >>

\* the compiler expands an embed_image!(..) call in a doc attribute
ExpandInline(args) ==
  /\ Idle
  /\ left >= 1
  /\ left' = left - 1
  /\ \E out \in { embed_image(args) } :
       /\ log' = Append(log, Entry(sites + 1, "inline", args, <<>>, out))
       /\ fsReads' = fsReads + (IF out.read THEN 1 ELSE 0)
       /\ failed' = (failed \/ out.tag # "Tokens")
  /\ sites' = sites + 1
  /\ UNCHANGED << env, fs, decl, writes >>

\* between two invocations the image file is rewritten on disk
WriteFile(p, c) ==
  /\ writes < MaxWrites
  /\ p \in DOMAIN fs
  /\ fs[p] # c
  /\ fs' = [fs EXCEPT ![p] = c]
  /\ writes' = writes + 1
  /\ UNCHANGED << env, decl, log, failed, fsReads, sites, left >>

(***************************************************************************)
(* Spec: a compilation unit, its annotations expanded one after another.   *)
(***************************************************************************)
UnitFiles ==
  { path_join(Root, p) : p \in { P_png, P_GIF, << "c", ".", "t", "x", "t" >> } }

Init ==
  /\ env \in { <<>>, << Root >> }
  /\ fs = [p \in UnitFiles |-> << 77 >>]
  /\ decl = <<>>
  /\ log = <<>>
  /\ failed = FALSE
  /\ fsReads = 0
  /\ sites = 0
  /\ writes = 0
  /\ left = MaxOcc

AnnLists == SeqsUpTo(UnitArgs, MaxAnn) \ { <<>> }

Next ==
  \/ \E d \in UnitDeclarations, anns \in AnnLists : BeginItem(d, anns)
  \/ ExpandAttribute
  \/ \E args \in UnitArgs : ExpandInline(args)
  \/ WriteFile(path_join(Root, P_png), << 255, 0 >>)

Spec == Init /\ [][Next]_vars

(***************************************************************************)
(* SpecCall: one invocation of either macro, on every argument stream,     *)
(* path, file content and kind of declaration.                             *)
(***************************************************************************)
InitCall ==
  /\ env \in { <<>>, << Root >> }
  /\ fs \in { [p \in Files |-> c] : c \in Contents }
  /\ decl = <<>>
  /\ log = <<>>
  /\ failed = FALSE
  /\ fsReads = 0
  /\ sites = 0
  /\ writes = 0
  /\ left = 1

NextCall ==
  \/ \E args \in WideArgs : ExpandInline(args)
  \/ \E d \in PlainDeclarations, args \in WideArgs : BeginItem(d, << args >>)
  \/ \E d \in Declarations, args \in UnitArgs : BeginItem(d, << args >>)
  \/ ExpandAttribute

SpecCall == InitCall /\ [][NextCall]_vars

(***************************************************************************)
(* What the specification says of one invocation, stated apart from the    *)
(* model's own operators.                                                  *)
(***************************************************************************)
\* the argument stream is exactly: string literal, comma, string literal
ExactlyTwoStrings(tokens) ==
  /\ Len(tokens) = 3
  /\ tokens[1].t = "LitStr"
  /\ tokens[2].t = "Comma"
  /\ tokens[3].t = "LitStr"

LabelOf(e) == e.tokens[1].v

PathOf(e) == e.tokens[3].v

\* root/path, the file the descriptor of entry e points at
FileOf(e) ==
  IF Len(PathOf(e)) > 0 /\ PathOf(e)[1] = "/" THEN PathOf(e)
  ELSE e.env[1] \o << "/" >> \o PathOf(e)

Readable(e) == e.env # <<>> /\ FileOf(e) \in DOMAIN e.fs

BytesOf(e) == e.fs[FileOf(e)]

\* the extensions of a path: what follows the last '.' of its last
\* component, when something other than '/' precedes that '.'
ExtensionsOf(path) ==
  { SubSeq(path, k + 1, Len(path)) : k \in
      { k \in 2..Len(path) :
          /\ path[k] = "."
          /\ path[k - 1] # "/"
          /\ \A j \in (k + 1)..Len(path) : path[j] \notin { ".", "/" } } }

SameIgnoringCase(x, y) ==
  /\ Len(x) = Len(y)
  /\ \A i \in 1..Len(x) :
       \/ x[i] = y[i]
       \/ \E k \in 1..26 : { x[i], y[i] } = { UpperChars[k], LowerChars[k] }

\* the lookup table of the specification
MimeTable ==
  { << <<"j","p","g">>, <<"i","m","a","g","e","/","j","p","e","g">> >>,
    << <<"j","p","e","g">>, <<"i","m","a","g","e","/","j","p","e","g">> >>,
    << <<"p","n","g">>, <<"i","m","a","g","e","/","p","n","g">> >>,
    << <<"b","m","p">>, <<"i","m","a","g","e","/","b","m","p">> >>,
    << <<"s","v","g">>,
       <<"i","m","a","g","e","/","s","v","g","+","x","m","l">> >>,
    << <<"g","i","f">>, <<"i","m","a","g","e","/","g","i","f">> >>,
    << <<"t","i","f">>, <<"i","m","a","g","e","/","t","i","f","f">> >>,
    << <<"t","i","f","f">>, <<"i","m","a","g","e","/","t","i","f","f">> >>,
    << <<"w","e","b","p">>, <<"i","m","a","g","e","/","w","e","b","p">> >>,
    << <<"i","c","o">>,
       <<"i","m","a","g","e","/","v","n","d",".","m","i","c","r","o","s",
         "o","f","t",".","i","c","o","n">> >> }

\* the content types the table gives a path
MimesOf(path) ==
  { row[2] : row \in
      { row \in MimeTable :
          \E x \in ExtensionsOf(path) : SameIgnoringCase(x, row[1]) } }

InAlphabet(c) == \E i \in 1..64 : Base64Alphabet[i] = c

SextetOf(c) == (CHOOSE i \in 1..64 : Base64Alphabet[i] = c) - 1

\* four characters q are the standard base64 of the one to three bytes b
QuadEncodes(q, b) ==
  /\ InAlphabet(q[1]) /\ InAlphabet(q[2])
  /\ b[1] = SextetOf(q[1]) * 4 + SextetOf(q[2]) \div 16
  /\ IF Len(b) = 1
     THEN q[3] = "=" /\ q[4] = "=" /\ SextetOf(q[2]) % 16 = 0
     ELSE /\ InAlphabet(q[3])
          /\ b[2] = (SextetOf(q[2]) % 16) * 16 + SextetOf(q[3]) \div 4
          /\ IF Len(b) = 2
             THEN q[4] = "=" /\ SextetOf(q[3]) % 4 = 0
             ELSE /\ InAlphabet(q[4])
                  /\ b[3] = (SextetOf(q[3]) % 4) * 64 + SextetOf(q[4])

\* payload is the standard (padded, unwrapped) base64 text of bytes
IsBase64Of(payload, bytes) ==
  LET groups == (Len(bytes) + 2) \div 3
  IN /\ Len(payload) = 4 * groups
     /\ \A k \in 1..groups :
          QuadEncodes(SubSeq(payload, 4 * k - 3, 4 * k),
                      SubSeq(bytes, 3 * k - 2,
                             IF 3 * k <= Len(bytes) THEN 3 * k
                             ELSE Len(bytes)))

\* text is ` [label]: data:mime;base64,payload` for the file's bytes
IsFragmentOf(text, label, mime, bytes) ==
  LET head == << " ", "[" >> \o label
              \o << "]", ":", " ", "d", "a", "t", "a", ":" >> \o mime
              \o << ";", "b", "a", "s", "e", "6", "4", "," >>
  IN /\ Len(text) >= Len(head)
     /\ SubSeq(text, 1, Len(head)) = head
     /\ IsBase64Of(SubSeq(text, Len(head) + 1, Len(text)), bytes)

(***************************************************************************)
(* C1: for every descriptor whose file is readable and whose extension is  *)
(* in the lookup table (compared ignoring case), the doc string produced   *)
(* is ` [label]: data:mime;base64,payload`, mime the table's entry and     *)
(* payload the standard base64 of the file's bytes.                        *)
(***************************************************************************)
C1_FragmentFormat ==
  \A i \in 1..Len(log) :
    ( /\ ExactlyTwoStrings(log[i].tokens)
      /\ Readable(log[i])
      /\ MimesOf(PathOf(log[i])) # {} )
    => /\ log[i].out.doc # <<>>
       /\ \A m \in MimesOf(PathOf(log[i])) :
            IsFragmentOf(log[i].out.doc[1], LabelOf(log[i]), m,
                         BytesOf(log[i]))

\* "f", "a.PNG" on a file holding FF 00 gave ` [f]: data:image/png;base64,/wA=`
C1_Witness ==
  \E i \in 1..Len(log) :
    /\ log[i].tokens = Args(L_f, << "a", ".", "P", "N", "G" >>)
    /\ Readable(log[i])
    /\ BytesOf(log[i]) = << 255, 0 >>
    /\ log[i].out.doc =
         << << " ", "[", "f", "]", ":", " ", "d", "a", "t", "a", ":",
               "i", "m", "a", "g", "e", "/", "p", "n", "g",
               ";", "b", "a", "s", "e", "6", "4", ",", "/", "w", "A", "=" >> >>

(***************************************************************************)
(* More of the specification's vocabulary.                                 *)
(***************************************************************************)
\* the descriptor of entry e resolves: well-formed arguments, a readable
\* file, an extension of the table
ValidDescriptor(e) ==
  /\ ExactlyTwoStrings(e.tokens)
  /\ Readable(e)
  /\ MimesOf(PathOf(e)) # {}

\* the supported declaration categories of the specification
Categories ==
  { "Const", "Enum", "ExternCrate", "Fn", "ForeignMod", "Impl", "Macro",
    "Macro2", "Mod", "Static", "Struct", "Trait", "TraitAlias", "Type",
    "Union", "Use" }

IsDocAttr(a) ==
  /\ a.style = "Outer"
  /\ a.name = "doc"
  /\ Len(a.tokens) = 1
  /\ a.tokens[1].t = "LitStr"

\* attributes a0, a1 are the two-line block of entry e's descriptor: an
\* empty doc line, then the fragment line
IsBlockOf(a0, a1, e) ==
  /\ IsDocAttr(a0)
  /\ a0.tokens[1].v = <<>>
  /\ IsDocAttr(a1)
  /\ \E m \in MimesOf(PathOf(e)) :
       IsFragmentOf(a1.tokens[1].v, LabelOf(e), m, BytesOf(e))

\* the documentation of an item: its doc attributes' texts, the outer ones
\* first, then the inner ones
DocTexts(item) ==
  LET docs == SelectSeq(item.outer \o item.inner, LAMBDA a : a.name = "doc")
  IN [i \in 1..Len(docs) |-> docs[i].tokens[1].v]

(***************************************************************************)
(* C2: for every supported category and every valid descriptor, attribute  *)
(* mode returns the declaration with its attribute list kept as a prefix,  *)
(* followed by exactly two doc attributes (an empty line, the fragment     *)
(* line); kind, inner attributes and every other token are unchanged.      *)
(***************************************************************************)
C2_AttributeFrame ==
  \A i \in 1..Len(log) :
    ( /\ log[i].mode = "attribute"
      /\ log[i].item[1].kind \in Categories
      /\ ValidDescriptor(log[i]) )
    => /\ log[i].out.tag = "Tokens"
       /\ Len(log[i].out.item) = 1
       /\ LET in == log[i].item[1]
              out == log[i].out.item[1]
              n == Len(in.outer)
          IN /\ out.kind = in.kind
             /\ out.rest = in.rest
             /\ out.inner = in.inner
             /\ Len(out.outer) = n + 2
             /\ SubSeq(out.outer, 1, n) = in.outer
             /\ IsBlockOf(out.outer[n + 1], out.outer[n + 2], log[i])

\* a macro_rules! item with a doc line before the annotation and
\* #[macro_export] after it came back with both, then the two new lines
C2_Witness ==
  \E i \in 1..Len(log) :
    /\ log[i].mode = "attribute"
    /\ log[i].item[1].kind = "Macro"
    /\ log[i].tokens = Args(L_g, P_GIF)
    /\ log[i].out.tag = "Tokens"
    /\ Len(log[i].out.item[1].outer) = 4
    /\ log[i].out.item[1].outer[2].name = "macro_export"
    /\ log[i].out.item[1].outer[3] = DocAttr(<<>>)

(***************************************************************************)
(* C3: when the n annotations of a declaration all succeed they are        *)
(* expanded in the order written, each expansion seeing the annotations    *)
(* not yet expanded, and the result carries one two-line block per         *)
(* annotation, in annotation order, none lost, duplicated or reordered.    *)
(***************************************************************************)
AnnotationsOf(item) == SelectSeq(item.outer, IsAnnotation)

OthersOf(item) == SelectSeq(item.outer, LAMBDA a : ~IsAnnotation(a))

\* every annotation of the declaration has been expanded with success
Expanded == decl # <<>> /\ ~HasAnnotation(decl[1].cur)

\* the index in log of the expansion of the annotation written at span
ExpansionOf(span) == CHOOSE j \in 1..Len(log) : log[j].site = span

\* the i-th annotation was expanded once, as written, after the ones before
\* it, with the ones after it still on the item
ExpandedInOrder(anns) ==
  \A i \in 1..Len(anns) :
    /\ Cardinality({ j \in 1..Len(log) : log[j].site = anns[i].span }) = 1
    /\ log[ExpansionOf(anns[i].span)].tokens = anns[i].tokens
    /\ log[ExpansionOf(anns[i].span)].out.tag = "Tokens"
    /\ AnnotationsOf(log[ExpansionOf(anns[i].span)].item[1])
         = SubSeq(anns, i + 1, Len(anns))
    /\ \A h \in 1..(i - 1) :
         ExpansionOf(anns[h].span) < ExpansionOf(anns[i].span)

\* attrs from position base + 1 on are the blocks of anns, in order
BlocksFollow(attrs, base, anns) ==
  /\ Len(attrs) = base + 2 * Len(anns)
  /\ \A i \in 1..Len(anns) :
       IsBlockOf(attrs[base + 2 * i - 1], attrs[base + 2 * i],
                 log[ExpansionOf(anns[i].span)])

\* the texts from position base + 1 on are the blocks of anns, in order
TextBlocksFollow(texts, base, anns) ==
  /\ Len(texts) >= base + 2 * Len(anns)
  /\ \A i \in 1..Len(anns) :
       /\ texts[base + 2 * i - 1] = <<>>
       /\ \E m \in MimesOf(anns[i].tokens[3].v) :
            IsFragmentOf(texts[base + 2 * i], anns[i].tokens[1].v, m,
                         BytesOf(log[ExpansionOf(anns[i].span)]))

\* C3 as amended: the blocks follow the declaration's outer attributes; its
\* inner attributes stay in the body, so the documentation is the outer doc
\* lines, the n blocks, then the inner doc lines
C3_BlocksInOrder ==
  Expanded =>
    LET orig == decl[1].orig
        cur == decl[1].cur
        anns == AnnotationsOf(orig)
        others == OthersOf(orig)
        outerDocs == DocTexts([orig EXCEPT !.inner = <<>>])
        innerDocs == DocTexts([orig EXCEPT !.outer = <<>>])
    IN /\ ExpandedInOrder(anns)
       /\ SubSeq(cur.outer, 1, Len(others)) = others
       /\ BlocksFollow(cur.outer, Len(others), anns)
       /\ cur.inner = orig.inner
       /\ cur.kind = orig.kind
       /\ cur.rest = orig.rest
       /\ SubSeq(DocTexts(cur), 1, Len(outerDocs)) = outerDocs
       /\ TextBlocksFollow(DocTexts(cur), Len(outerDocs), anns)
       /\ DocTexts(cur) =
            SubSeq(DocTexts(cur), 1, Len(outerDocs) + 2 * Len(anns))
            \o innerDocs

\* two annotations on a module with an inner doc line: both blocks, in
\* order, between the outer and the inner documentation
C3_Witness ==
  /\ Expanded
  /\ decl[1].orig.kind = "Mod"
  /\ Len(AnnotationsOf(decl[1].orig)) = 2
  /\ AnnotationsOf(decl[1].orig)[1].tokens = Args(L_g, P_GIF)
  /\ AnnotationsOf(decl[1].orig)[2].tokens = Args(L_f, P_png)
  /\ Len(DocTexts(decl[1].cur)) = 6
  /\ DocTexts(decl[1].cur)[1] = << "D" >>
  /\ DocTexts(decl[1].cur)[6] = << "I" >>

\* C3 as stated: the documentation is the original documentation followed
\* by the n blocks
C3_DocsThenBlocks ==
  Expanded =>
    LET orig == decl[1].orig
        cur == decl[1].cur
        anns == AnnotationsOf(orig)
    IN /\ ExpandedInOrder(anns)
       /\ Len(DocTexts(cur)) = Len(DocTexts(orig)) + 2 * Len(anns)
       /\ SubSeq(DocTexts(cur), 1, Len(DocTexts(orig))) = DocTexts(orig)
       /\ TextBlocksFollow(DocTexts(cur), Len(DocTexts(orig)), anns)

\* C3 as stated fails only on declarations that carry inner doc attributes
C3_OnlyInnerDocsBreakIt ==
  C3_DocsThenBlocks \/ DocTexts([decl[1].orig EXCEPT !.outer = <<>>]) # <<>>

(***************************************************************************)
(* C4: for every descriptor whose path has no extension, or one that is    *)
(* not in the table, processing in either mode aborts, produces no         *)
(* fragment and falls back to no content type; the error is                *)
(* UnsupportedExtension once the file has been read, and the error of the  *)
(* earlier step (project root, file) when that step fails.                 *)
(***************************************************************************)
NothingEmitted(e) ==
  /\ e.out.tag # "Tokens"
  /\ e.out.lit = <<>>
  /\ e.out.item = <<>>

C4_UnknownExtensionAborts ==
  \A i \in 1..Len(log) :
    ( /\ ExactlyTwoStrings(log[i].tokens)
      /\ MimesOf(PathOf(log[i])) = {} )
    => /\ log[i].out.tag = "Panic"
       /\ NothingEmitted(log[i])
       /\ log[i].out.doc = <<>>
       /\ log[i].out.err =
            IF log[i].env = <<>> THEN "ConfigError"
            ELSE IF ~Readable(log[i]) THEN "FileError"
            ELSE "UnsupportedExtension"

\* the hidden file ".png" exists and was read, and has no extension
C4_Witness ==
  \E i \in 1..Len(log) :
    /\ log[i].tokens = Args(L_f, << ".", "p", "n", "g" >>)
    /\ Readable(log[i])
    /\ log[i].out.read
    /\ log[i].out.err = "UnsupportedExtension"
    /\ log[i].out.msg = "No extension for file"

\* C4 as stated: the error is UnsupportedExtension for every such
\* descriptor (already so with the project root set)
C4_AlwaysUnsupportedExtension ==
  \A i \in 1..Len(log) :
    ( /\ ExactlyTwoStrings(log[i].tokens)
      /\ log[i].env # <<>>
      /\ MimesOf(PathOf(log[i])) = {} )
    => /\ NothingEmitted(log[i])
       /\ log[i].out.err = "UnsupportedExtension"

(***************************************************************************)
(* C5: given a descriptor that resolves, attribute mode rewrites the item  *)
(* if and only if it is of a supported category; any other item gets an    *)
(* UnsupportedDeclaration diagnostic on the item and nothing is emitted.   *)
(* Given a descriptor that does not resolve, no item is rewritten and the  *)
(* error is the descriptor's.                                              *)
(***************************************************************************)
C5_SupportedCategories ==
  \A i \in 1..Len(log) :
    log[i].mode = "attribute" =>
      IF ValidDescriptor(log[i])
      THEN /\ log[i].out.tag = "Tokens" <=> log[i].item[1].kind \in Categories
           /\ log[i].item[1].kind \notin Categories =>
                /\ log[i].out.tag = "CompileError"
                /\ log[i].out.err = "UnsupportedDeclaration"
                /\ log[i].out.at = "item"
                /\ NothingEmitted(log[i])
      ELSE /\ NothingEmitted(log[i])
           /\ log[i].out.err
                \in { "ParseError", "ConfigError", "FileError",
                      "UnsupportedExtension" }

\* an expression statement annotated with a valid descriptor
C5_Witness ==
  \E i \in 1..Len(log) :
    /\ log[i].mode = "attribute"
    /\ log[i].item[1].kind = "ExprStmt"
    /\ ValidDescriptor(log[i])
    /\ log[i].out.err = "UnsupportedDeclaration"
    /\ log[i].out.item = <<>>

\* C5 as stated, its second half: every annotated item of another category
\* fails with UnsupportedDeclaration (already so with well-formed
\* arguments and the project root set)
C5_WhateverTheDescriptor ==
  \A i \in 1..Len(log) :
    ( /\ log[i].mode = "attribute"
      /\ ExactlyTwoStrings(log[i].tokens)
      /\ log[i].env # <<>>
      /\ log[i].item[1].kind \notin Categories )
    => /\ log[i].out.err = "UnsupportedDeclaration"
       /\ NothingEmitted(log[i])

(***************************************************************************)
(* C6: the parser returns a descriptor if and only if the argument stream  *)
(* is exactly string literal, comma, string literal; on any other stream   *)
(* both macros fail with a ParseError, read no file, produce no fragment.  *)
(***************************************************************************)
C6_ExactArguments ==
  /\ \A i \in 1..Len(log) :
       /\ log[i].out.desc # <<>> <=> ExactlyTwoStrings(log[i].tokens)
       /\ ~ExactlyTwoStrings(log[i].tokens) =>
            /\ log[i].out.tag = "CompileError"
            /\ log[i].out.err = "ParseError"
            /\ log[i].out.at = "args"
            /\ ~log[i].out.read
            /\ log[i].out.doc = <<>>
            /\ NothingEmitted(log[i])
  /\ fsReads = Cardinality({ i \in 1..Len(log) :
                               /\ ExactlyTwoStrings(log[i].tokens)
                               /\ log[i].env # <<>> })

\* a trailing comma: `"f", "a.png",` on an existing file
C6_Witness ==
  \E i \in 1..Len(log) :
    /\ log[i].tokens = << LitStr(L_f), Comma, LitStr(P_png), Comma >>
    /\ log[i].env # <<>>
    /\ log[i].out.err = "ParseError"
    /\ fsReads = 0

(***************************************************************************)
(* C7: for every valid descriptor embed_image returns one string literal,  *)
(* a blank-line prefix followed by exactly the fragment attribute mode     *)
(* appends for the same descriptor; nothing else, and no declaration.      *)
(***************************************************************************)
\* the fragment line attribute-mode entry e appended: the text of the last
\* outer attribute of the item it returned
AppendedFragment(e) ==
  e.out.item[1].outer[Len(e.out.item[1].outer)].tokens[1].v

\* C7: a valid descriptor gives one literal, the blank-line prefix and then
\* the fragment attribute mode appends for it; no item comes in or out
C7_InlineFragment ==
  \A i \in 1..Len(log) :
    ( /\ log[i].mode = "inline"
      /\ ValidDescriptor(log[i]) )
    => /\ log[i].out.tag = "Tokens"
       /\ log[i].item = <<>>
       /\ log[i].out.item = <<>>
       /\ Len(log[i].out.lit) = 1
       /\ Len(log[i].out.lit[1]) > 4
       /\ SubSeq(log[i].out.lit[1], 1, 4) = << "\n", " ", "\n", " " >>
       /\ \E m \in MimesOf(PathOf(log[i])) :
            IsFragmentOf(SubSeq(log[i].out.lit[1], 5, Len(log[i].out.lit[1])),
                         LabelOf(log[i]), m, BytesOf(log[i]))
       /\ \A j \in 1..Len(log) :
            ( /\ log[j].mode = "attribute"
              /\ log[j].out.tag = "Tokens"
              /\ log[j].tokens = log[i].tokens
              /\ log[j].env = log[i].env
              /\ BytesOf(log[j]) = BytesOf(log[i]) )
            => log[i].out.lit[1]
                 = << "\n", " ", "\n", " " >> \o AppendedFragment(log[j])

\* the same descriptor went through embed_image and through embed_doc_image
C7_Witness ==
  \E i, j \in 1..Len(log) :
    /\ log[i].mode = "inline"
    /\ log[j].mode = "attribute"
    /\ log[i].tokens = Args(L_g, P_GIF)
    /\ log[j].tokens = log[i].tokens
    /\ log[i].out.tag = "Tokens"
    /\ log[j].out.tag = "Tokens"
    /\ log[i].out.lit[1]
         = << "\n", " ", "\n", " " >> \o AppendedFragment(log[j])

(***************************************************************************)
(* C8: an occurrence that does not resolve stops at its failing step,      *)
(* emits nothing, is never expanded again, and fails the unit; a failed    *)
(* unit stays failed.                                                      *)
(***************************************************************************)
\* the occurrence of entry e resolves at every step
Resolves(e) ==
  /\ ValidDescriptor(e)
  /\ e.mode = "attribute" => e.item[1].kind \in Categories

\* what holds of every occurrence expanded so far
C8_Failures ==
  /\ \A i \in 1..Len(log) :
       ~Resolves(log[i]) =>
         /\ failed
         /\ NothingEmitted(log[i])
         \* it stopped at the first step that fails
         /\ log[i].out.desc # <<>> <=> ExactlyTwoStrings(log[i].tokens)
         /\ log[i].out.read
              <=> (ExactlyTwoStrings(log[i].tokens) /\ log[i].env # <<>>)
         /\ log[i].out.doc # <<>> <=> ValidDescriptor(log[i])
  \* no occurrence is expanded twice, none expanded is still pending
  /\ \A i, j \in 1..Len(log) : log[i].site = log[j].site => i = j
  /\ \A i \in 1..Len(log), d \in 1..Len(decl) :
       \A k \in 1..Len(decl[d].cur.outer) :
         decl[d].cur.outer[k].span # log[i].site
  /\ Len(log) = Cardinality({ log[i].site : i \in 1..Len(log) })

\* C8: every state satisfies C8_Failures, and no step takes a failed unit
\* back to success
C8_FailFast == []C8_Failures /\ [][failed => failed']_vars

\* an annotation failed on a missing file and its item is gone; a later
\* occurrence resolved, and the unit is still failed
C8_Witness ==
  /\ failed
  /\ Len(log) = 2
  /\ log[1].mode = "attribute"
  /\ log[1].out.err = "FileError"
  /\ NothingEmitted(log[1])
  /\ log[2].out.tag = "Tokens"
  /\ decl = <<>>

(***************************************************************************)
(* C9: two runs on the same descriptor, project root and file content give *)
(* the same fragment; each run reads the file anew, so the fragment follows*)
(* the file's bytes and nothing of an earlier run.                         *)
(***************************************************************************)
C9_Recomputed ==
  /\ \A i, j \in 1..Len(log) :
       ( /\ ValidDescriptor(log[i])
         /\ ValidDescriptor(log[j])
         /\ LabelOf(log[i]) = LabelOf(log[j])
         /\ ExtensionsOf(PathOf(log[i])) = ExtensionsOf(PathOf(log[j])) )
       => /\ log[i].out.doc # <<>>
          /\ log[i].out.doc = log[j].out.doc
               <=> BytesOf(log[i]) = BytesOf(log[j])
  /\ \A i \in 1..Len(log) : ValidDescriptor(log[i]) => log[i].out.read
  /\ fsReads = Cardinality({ i \in 1..Len(log) : log[i].out.read })

\* the same annotation ran twice on an unchanged file: two reads, one text
C9_Witness ==
  /\ Len(log) = 2
  /\ log[1].tokens = Args(L_f, P_png)
  /\ log[2].tokens = log[1].tokens
  /\ log[1].fs = log[2].fs
  /\ log[1].out.doc # <<>>
  /\ log[1].out.doc = log[2].out.doc
  /\ fsReads = 2

\* the file was rewritten between the two runs and the second text follows it
C9_RewrittenBetweenRuns ==
  /\ Len(log) = 2
  /\ env # <<>>
  /\ log[1].tokens = Args(L_f, P_png)
  /\ log[2].tokens = log[1].tokens
  /\ BytesOf(log[1]) # BytesOf(log[2])
  /\ log[1].out.doc # log[2].out.doc

(***************************************************************************)
(* C10: every Image Descriptor returned by the parser has a non-empty      *)
(* label.  ImageDescription::parse takes the value of the first string     *)
(* literal as it is written, so `"", "a.png"` gives the empty label.       *)
(***************************************************************************)
\* what the parser returns: label and path are the two literals' values
C10_LabelAsWritten ==
  \A i \in 1..Len(log) :
    log[i].out.desc # <<>> =>
      /\ Len(log[i].out.desc) = 1
      /\ log[i].out.desc[1].label = log[i].tokens[1].v
      /\ log[i].out.desc[1].path = log[i].tokens[3].v
      /\ log[i].out.doc # <<>> =>
           SubSeq(log[i].out.doc[1], 1, Len(log[i].tokens[1].v) + 3)
             = << " ", "[" >> \o log[i].tokens[1].v \o << "]" >>

\* `"", "a.png"` parsed to a descriptor with the empty label, and the
\* fragment ` []: data:...` was produced for it
C10_Witness ==
  \E i \in 1..Len(log) :
    /\ log[i].tokens = Args(<<>>, P_png)
    /\ log[i].out.desc = << [label |-> <<>>, path |-> P_png] >>
    /\ log[i].out.doc # <<>>
    /\ SubSeq(log[i].out.doc[1], 1, 4) = << " ", "[", "]", ":" >>

\* C10: the label of a returned descriptor is never empty
C10_NonEmptyLabel ==
  \A i \in 1..Len(log) :
    log[i].out.desc # <<>> => log[i].out.desc[1].label # <<>>

(***************************************************************************)
(* C11: when several failure conditions hold for one occurrence, the error *)
(* reported is that of the first failing check in the order: arguments     *)
(* malformed, project root absent, file unreadable, path without extension,*)
(* extension not in the table, and in attribute mode item unparsable or    *)
(* unsupported.                                                            *)
(***************************************************************************)
\* the checks of the list that fail for entry e, in the list's order, each
\* as << error, message >>
FailingChecks(e) ==
  (IF ~ExactlyTwoStrings(e.tokens)
     THEN << << "ParseError", "syn parse error" >> >> ELSE <<>>)
  \o (IF e.env = <<>>
        THEN << << "ConfigError", "no CARGO_MANIFEST_DIR" >> >> ELSE <<>>)
  \o (IF ExactlyTwoStrings(e.tokens) /\ ~Readable(e)
        THEN << << "FileError", "Failed to load image" >> >> ELSE <<>>)
  \o (IF ExactlyTwoStrings(e.tokens) /\ ExtensionsOf(PathOf(e)) = {}
        THEN << << "UnsupportedExtension", "No extension for file" >> >>
        ELSE <<>>)
  \o (IF ExactlyTwoStrings(e.tokens) /\ MimesOf(PathOf(e)) = {}
        THEN << << "UnsupportedExtension", "Unrecognized image extension" >> >>
        ELSE <<>>)
  \o (IF e.mode = "attribute" /\ e.item[1].kind = "ExprStmt"
        THEN << << "UnsupportedDeclaration", "syn parse error" >> >> ELSE <<>>)
  \o (IF e.mode = "attribute" /\ e.item[1].kind \notin Categories
        THEN << << "UnsupportedDeclaration", "Unsupported item" >> >>
        ELSE <<>>)

\* C11: an occurrence succeeds when no check fails, and otherwise reports
\* the first failing check of the list and emits nothing
C11_FirstFailingCheck ==
  \A i \in 1..Len(log) :
    IF FailingChecks(log[i]) = <<>>
    THEN log[i].out.tag = "Tokens"
    ELSE /\ NothingEmitted(log[i])
         /\ log[i].out.err = FailingChecks(log[i])[1][1]
         /\ log[i].out.msg = FailingChecks(log[i])[1][2]
         \* the file is read only when the checks before the read passed
         /\ log[i].out.read
              <=> FailingChecks(log[i])[1][1]
                    \notin { "ParseError", "ConfigError" }

\* an unsupported declaration annotated with an unreadable file: two checks
\* fail and the file error is the one reported
C11_Witness ==
  \E i \in 1..Len(log) :
    /\ log[i].mode = "attribute"
    /\ log[i].item[1].kind \notin Categories
    /\ ExactlyTwoStrings(log[i].tokens)
    /\ log[i].env # <<>>
    /\ ~Readable(log[i])
    /\ Len(FailingChecks(log[i])) >= 2
    /\ log[i].out.err = "FileError"

\* an unreadable file with an unrecognised extension reports the file error
C11_UnreadableUnrecognised ==
  \E i \in 1..Len(log) :
    /\ ExactlyTwoStrings(log[i].tokens)
    /\ log[i].env # <<>>
    /\ ~Readable(log[i])
    /\ ExtensionsOf(PathOf(log[i])) # {}
    /\ MimesOf(PathOf(log[i])) = {}
    /\ log[i].out.err = "FileError"

\* four checks of the list fail for one occurrence
C11_SeveralFail ==
  \E i \in 1..Len(log) : Len(FailingChecks(log[i])) >= 4

====
